---- MODULE Spec2Model ----
(***************************************************************************)
(* Model of tutorial-visualize-embeddings.ipynb: the vocabulary builder    *)
(* build_dataset and the skip-gram batch sampler generate_batch with its   *)
(* module-level cursor data_index.                                         *)
(*                                                                         *)
(* Python sequences are 0-indexed, TLA+ sequences 1-indexed: the Python    *)
(* element s[k] is s[k + 1] here.  Window positions, the cursor and the    *)
(* loop counters keep their Python (0-based) values.                       *)
(***************************************************************************)
EXTENDS Integers, Sequences, FiniteSets, TLC

(* ------------------------------ bounds -------------------------------- *)
MaxLen == 5
MaxBatch == 4
MaxSkips == 2
MaxWindow == 1
MaxWords == 3
MaxVocab == 3

(* The encoded corpora the sampler is run on: rank 0 is the out-of-vocabulary
   bucket, rank 1 a word. *)
Ranks == {0, 1}
Corpora == UNION {[1..n -> Ranks] : n \in 0..MaxLen}

(* The arguments a caller may pass, the two failing examples of the
   documentation included. *)
ExampleParams == {<<7, 2, 1>>, <<5, 5, 1>>}
Params == ((-1..MaxBatch) \X (-1..MaxSkips) \X (-1..MaxWindow)) \cup ExampleParams

(* What an np.ndarray holds before it is written: whatever the allocator
   left there.  One fill value per call, chosen at allocation. *)
Uninit == {-1, 0}

(* The threads that may call generate_batch.  The training loop t1 is the
   one caller of the sequential program, in which t2 takes no step. *)
Callers == {"t1", "t2"}
MainCaller == "t1"

(* The raw token sequences and vocabulary sizes build_dataset is run on. *)
Tokens == {"UNK", "a", "b"}
TokenLists == UNION {[1..n -> Tokens] : n \in 0..MaxWords}
VocabSizes == 1..MaxVocab

(* vocabulary .. built: the globals of the vocabulary cells.  data is the
   encoded corpus, the global generate_batch reads.  data_index and frame:
   the cursor and the callers of generate_batch.  prev: the last returned
   call, kept for comparing two calls.  mutex: whether the callers keep
   to mutual exclusion around the whole call of generate_batch. *)
VARIABLES vocabulary, vocabulary_size, count, dictionary, reverse_dictionary,
          built, data, data_index, frame, prev, mutex

vocab == <<vocabulary, vocabulary_size, count, dictionary, reverse_dictionary,
           built>>

vars == <<vocabulary, vocabulary_size, count, dictionary, reverse_dictionary,
          built, data, data_index, frame, prev, mutex>>

(* ------------------------- Python primitives -------------------------- *)
(* a % b of Python for b # 0: the result has the sign of the divisor. *)
PyMod(a, b) == IF b > 0 THEN a % b ELSE -((-a) % (-b))

(* a // b of Python for b # 0: floor division. *)
PyFloorDiv(a, b) ==
    LET q == a - PyMod(a, b)
    IN  IF b > 0 THEN (IF q >= 0 THEN q \div b ELSE -((-q) \div b))
        ELSE (IF q >= 0 THEN -(q \div (-b)) ELSE (-q) \div (-b))

Min(a, b) == IF a < b THEN a ELSE b

(* A slice that always starts at the first element. *)
Slice_FromStart(s, lo, hi) ==
    LET h == Min(hi - lo, Len(s))
    IN  IF h <= 0 THEN <<>> ELSE [k \in 1..h |-> s[k]]

(* s[lo:hi] of Python for 0 <= lo: the slice is clamped to the sequence. *)
Slice(s, lo, hi) ==
    LET h == Min(hi, Len(s))
    IN  IF h <= lo THEN <<>> ELSE [k \in 1..(h - lo) |-> s[lo + k]]

(* A deque that never drops an element. *)
DequeAppend_NoEvict(buf, x, m) == Append(buf, x)

(* collections.deque(maxlen = m).append(x): a full deque drops its oldest
   element. *)
DequeAppend(buf, x, m) ==
    IF m = 0 THEN buf
    ELSE IF Len(buf) = m THEN Append(Tail(buf), x)
    ELSE Append(buf, x)

(* collections.deque(maxlen = m).extend(xs): append the elements in order. *)
RECURSIVE DequeExtend(_, _, _)
DequeExtend(buf, xs, m) ==
    IF xs = <<>> THEN buf
    ELSE DequeExtend(DequeAppend(buf, Head(xs), m), Tail(xs), m)

Range(s) == {s[k] : k \in DOMAIN s}

(* [w for w in range(span) if w != skip_window], as the set of positions. *)
context_words(sp, sw) == {w \in 0..(sp - 1) : w # sw}

(* Drawing with replacement, as random.choices would. *)
SamplesWithReplacement(population, k) == [1..k -> population]

(* The results random.sample(population, k) can give: the sequences of k
   pairwise distinct elements of the population. *)
Samples(population, k) ==
    {s \in [1..k -> population] : \A a, b \in 1..k : a # b => s[a] # s[b]}

(* ---------------------------- build_dataset --------------------------- *)
(* A Python dict: keys in insertion order and the value of every key. *)
EmptyDict == [keys |-> <<>>, value |-> <<>>]

(* d[k] = v: a new key goes to the end, an old key keeps its place. *)
DictSet(d, k, v) ==
    [keys |-> IF k \in DOMAIN d.value THEN d.keys ELSE Append(d.keys, k),
     value |-> [x \in DOMAIN d.value \cup {k} |-> IF x = k THEN v ELSE d.value[x]]]

(* A get that answers -1 for a missing key. *)
DictGet_MinusOne(d, k, default) == IF k \in DOMAIN d.value THEN d.value[k] ELSE -1

(* d.get(k, default) *)
DictGet(d, k, default) == IF k \in DOMAIN d.value THEN d.value[k] ELSE default

(* The distinct elements of a sequence in the order of their first
   occurrence: the key order of collections.Counter(words). *)
RECURSIVE FirstSeen(_, _)
FirstSeen(words, seen) ==
    IF words = <<>> THEN seen
    ELSE FirstSeen(Tail(words),
                   IF Head(words) \in Range(seen) THEN seen
                   ELSE Append(seen, Head(words)))

Occurrences(words, w) == Cardinality({k \in DOMAIN words : words[k] = w})

(* collections.Counter(words).items(): <<word, count>> in key order. *)
Counter(words) ==
    LET ks == FirstSeen(words, <<>>)
    IN  [k \in DOMAIN ks |-> <<ks[k], Occurrences(words, ks[k])>>]

(* most_common(n): the items sorted by descending count, items of equal
   count in key order (the sort is stable), cut to the first n; no item
   for n <= 0. *)
most_common(items, n) ==
    LET place(a) == Cardinality({b \in DOMAIN items : items[b][2] > items[a][2]})
                    + Cardinality({b \in 1..(a - 1) : items[b][2] = items[a][2]})
                    + 1
        sorted == [p \in DOMAIN items |->
                     items[CHOOSE a \in DOMAIN items : place(a) = p]]
    IN  IF n <= 0 THEN <<>> ELSE SubSeq(sorted, 1, Min(n, Len(items)))

(* for word, _ in count: dictionary[word] = len(dictionary) *)
RECURSIVE FillDictionary(_, _)
FillDictionary(cnt, d) ==
    IF cnt = <<>> THEN d
    ELSE FillDictionary(Tail(cnt), DictSet(d, Head(cnt)[1], Len(d.keys)))

(* dict(zip(dictionary.values(), dictionary.keys())): the pairs are entered
   in key order, a later pair replaces an earlier one of the same rank. *)
RECURSIVE ZipDict(_, _, _)
ZipDict(d, ks, r) ==
    IF ks = <<>> THEN r
    ELSE ZipDict(d, Tail(ks), DictSet(r, d.value[Head(ks)], Head(ks)))

(* The encoding loop with a count of the words missing from the
   dictionary in place of the count of the indices that are 0. *)
RECURSIVE EncodeLoop_CountAbsent(_, _, _)
EncodeLoop_CountAbsent(words, d, acc) ==
    IF words = <<>> THEN acc
    ELSE LET index == DictGet(d, Head(words), 0)
         IN  EncodeLoop_CountAbsent(Tail(words), d,
                 [data |-> Append(acc.data, index),
                  unk_count |-> IF Head(words) \notin DOMAIN d.value
                                THEN acc.unk_count + 1 ELSE acc.unk_count])

(* for word in words: index = dictionary.get(word, 0); unk_count grows by
   one when index == 0; data.append(index) *)
RECURSIVE EncodeLoop(_, _, _)
EncodeLoop(words, d, acc) ==
    IF words = <<>> THEN acc
    ELSE LET index == DictGet(d, Head(words), 0)
         IN  EncodeLoop(Tail(words), d,
                 [data |-> Append(acc.data, index),
                  unk_count |-> IF index = 0 THEN acc.unk_count + 1
                                ELSE acc.unk_count])

(* build_dataset(words, n_words): the four results. *)
build_dataset(words, n_words) ==
    LET count0 == <<<<"UNK", -1>>>> \o most_common(Counter(words), n_words - 1)
        dict == FillDictionary(count0, EmptyDict)
        enc == EncodeLoop(words, dict, [data |-> <<>>, unk_count |-> 0])
    IN  [data |-> enc.data,
         count |-> [count0 EXCEPT ![1] = <<"UNK", enc.unk_count>>],
         dictionary |-> dict,
         reversed_dictionary |-> ZipDict(dict, dict.keys, EmptyDict)]

(* data, count, dictionary, reverse_dictionary =
       build_dataset(vocabulary, vocabulary_size) *)
BuildDataset ==
    /\ ~built
    /\ LET r == build_dataset(vocabulary, vocabulary_size) IN
         /\ data' = r.data
         /\ count' = r.count
         /\ dictionary' = r.dictionary
         /\ reverse_dictionary' = r.reversed_dictionary
    /\ built' = TRUE
    /\ UNCHANGED <<vocabulary, vocabulary_size, data_index, frame, prev, mutex>>

(* --------------------------- generate_batch --------------------------- *)
(* The frame of a caller: the arguments and locals of generate_batch, the
   position in its body (pc) and how the last call ended (outcome, exc).
   Four fields record the call for the properties: entry and exit are the
   cursor when the call began and when it returned, picks the samples drawn
   so far, and taken maps every fully written index of batch and labels to
   the window position its context was read from.  Two more record where
   the window lies: bufpos holds the corpus position every element of
   buffer was read from, and wins the bufpos of every group so far.
   NoFrame is the frame of a caller that has not called yet. *)
NoFrame ==
    [pc |-> "idle", batch_size |-> 0, num_skips |-> 0, skip_window |-> 0,
     batch |-> <<>>, labels |-> <<>>, span |-> 0, buffer |-> <<>>,
     i |-> 0, j |-> 0, words_to_use |-> <<>>,
     outcome |-> "none", exc |-> "none",
     entry |-> 0, exit |-> 0, taken |-> <<>>, picks |-> <<>>,
     bufpos |-> <<>>, wins |-> <<>>]

(* A generate_batch that lost its second assert. *)
AssertsHold_DivisibilityOnly(bs, ns, sw) == PyMod(bs, ns) = 0

(* The assert statements of generate_batch (evaluated for num_skips # 0). *)
AssertsHold(bs, ns, sw) == PyMod(bs, ns) = 0 /\ ns <= 2 * sw

(* An exception leaves generate_batch: nothing is returned and the locals
   are gone. *)
Raise(f, e) ==
    [NoFrame EXCEPT !.pc = "idle", !.outcome = "raised", !.exc = e,
                    !.batch_size = f.batch_size, !.num_skips = f.num_skips,
                    !.skip_window = f.skip_window, !.entry = f.entry]

(* return batch, labels: the caller gets the two arrays, the other locals
   are gone. *)
Leave(f, cursor) ==
    [NoFrame EXCEPT !.pc = "idle", !.outcome = "returned",
                    !.batch_size = f.batch_size, !.num_skips = f.num_skips,
                    !.skip_window = f.skip_window, !.entry = f.entry,
                    !.batch = f.batch, !.labels = f.labels,
                    !.taken = f.taken, !.picks = f.picks, !.wins = f.wins,
                    !.exit = cursor]

(* A loop that runs its body once more. *)
LoopTest_OneMore(f) ==
    IF f.i <= PyFloorDiv(f.batch_size, f.num_skips)
    THEN [f EXCEPT !.pc = "sample"]
    ELSE [f EXCEPT !.pc = "backtrack"]

(* for i in range(batch_size // num_skips): enter the body or leave. *)
LoopTest(f) ==
    IF f.i < PyFloorDiv(f.batch_size, f.num_skips)
    THEN [f EXCEPT !.pc = "sample"]
    ELSE [f EXCEPT !.pc = "backtrack"]

(* The frame of a call that has just been entered with arguments p. *)
Entered(p) ==
    [NoFrame EXCEPT !.pc = "assert", !.batch_size = p[1], !.num_skips = p[2],
                    !.skip_window = p[3], !.entry = data_index]

(* A caller enters generate_batch(batch_size, num_skips, skip_window). *)
Call(c) ==
    /\ frame[c].pc = "idle"
    /\ \E p \in Params : frame' = [frame EXCEPT ![c] = Entered(p)]
    /\ UNCHANGED <<vocab, mutex, data, data_index, prev>>

(* The two asserts. *)
CheckArgs(c) ==
    LET f == frame[c] IN
    /\ f.pc = "assert"
    /\ frame' = [frame EXCEPT ![c] =
         IF f.num_skips = 0 THEN Raise(f, "ZeroDivisionError")
         ELSE IF ~AssertsHold(f.batch_size, f.num_skips, f.skip_window)
              THEN Raise(f, "AssertionError")
         ELSE [f EXCEPT !.pc = "alloc"]]
    /\ UNCHANGED <<vocab, mutex, data, data_index, prev>>

(* batch and labels are allocated uninitialised, span is computed and the
   deque is created. *)
Alloc(c) ==
    LET f == frame[c]
        sp == 2 * f.skip_window + 1
    IN
    /\ f.pc = "alloc"
    /\ \E g \in Uninit :
         frame' = [frame EXCEPT ![c] =
           IF f.batch_size < 0 THEN Raise(f, "ValueError")
           ELSE IF sp < 0 THEN Raise(f, "ValueError")
           ELSE [f EXCEPT !.pc = "reset", !.span = sp, !.buffer = <<>>,
                          !.batch = [k \in 1..f.batch_size |-> g],
                          !.labels = [k \in 1..f.batch_size |-> g]]]
    /\ UNCHANGED <<vocab, mutex, data, data_index, prev>>

(* A test that sends the cursor back to the start in every call. *)
PastEnd_Always(cursor, sp, n) == TRUE

(* data_index + span > len(data) *)
PastEnd(cursor, sp, n) == cursor + sp > n

(* if data_index + span > len(data): data_index = 0 *)
ResetCursor(c) ==
    LET f == frame[c] IN
    /\ f.pc = "reset"
    /\ data_index' = IF PastEnd(data_index, f.span, Len(data)) THEN 0
                     ELSE data_index
    /\ frame' = [frame EXCEPT ![c].pc = "fill"]
    /\ UNCHANGED <<vocab, mutex, data, prev>>

(* The corpus positions 0 .. len(data) - 1, in order. *)
Positions(seq) == [k \in 1..Len(seq) |-> k - 1]

(* buffer.extend(data[data_index:data_index + span]); data_index += span.
   bufpos holds, for every element of buffer, the corpus position it was
   read from. *)
FillBuffer(c) ==
    LET f == frame[c] IN
    /\ f.pc = "fill"
    /\ frame' = [frame EXCEPT ![c] =
         LoopTest([f EXCEPT
             !.buffer = DequeExtend(f.buffer,
                            Slice(data, data_index, data_index + f.span), f.span),
             !.bufpos = DequeExtend(f.bufpos,
                            Slice(Positions(data), data_index,
                                  data_index + f.span), f.span)])]
    /\ data_index' = data_index + f.span
    /\ UNCHANGED <<vocab, mutex, data, prev>>

(* context_words is built and random.sample draws words_to_use. *)
Sample(c) ==
    LET f == frame[c]
        population == context_words(f.span, f.skip_window)
    IN
    /\ f.pc = "sample"
    /\ IF f.num_skips < 0 \/ f.num_skips > Cardinality(population)
       THEN frame' = [frame EXCEPT ![c] = Raise(f, "ValueError")]
       ELSE \E s \in Samples(population, f.num_skips) :
              frame' = [frame EXCEPT ![c] =
                 [f EXCEPT !.words_to_use = s, !.j = 0,
                           !.picks = Append(f.picks, s),
                           !.wins = Append(f.wins, f.bufpos),
                           !.pc = IF s = <<>> THEN "slide" ELSE "emit"]]
    /\ UNCHANGED <<vocab, mutex, data, data_index, prev>>

(* One round of the inner loop: the pair for words_to_use[j] is written. *)
Emit(c) ==
    LET f == frame[c]
        k == f.i * f.num_skips + f.j + 1
        context_word == f.words_to_use[f.j + 1]
        centred == [f EXCEPT !.batch[k] = f.buffer[f.skip_window + 1]]
    IN
    /\ f.pc = "emit"
    /\ frame' = [frame EXCEPT ![c] =
         IF f.skip_window >= Len(f.buffer) THEN Raise(f, "IndexError")
         ELSE IF context_word >= Len(f.buffer) THEN Raise(centred, "IndexError")
         ELSE [centred EXCEPT !.labels[k] = f.buffer[context_word + 1],
                              !.taken = [x \in DOMAIN f.taken \cup {k} |->
                                           IF x = k THEN context_word
                                           ELSE f.taken[x]],
                              !.j = f.j + 1,
                              !.pc = IF f.j + 1 < Len(f.words_to_use)
                                     THEN "emit" ELSE "slide"]]
    /\ UNCHANGED <<vocab, mutex, data, data_index, prev>>

(* The window moves on by one corpus position.  At the end of the corpus
   the code assigns to buffer[:], and a deque has no slice assignment:
   TypeError. *)
Slide(c) ==
    LET f == frame[c] IN
    /\ f.pc = "slide"
    /\ IF data_index = Len(data)
       THEN /\ frame' = [frame EXCEPT ![c] = Raise(f, "TypeError")]
            /\ UNCHANGED data_index
       ELSE IF data_index > Len(data)
       THEN /\ frame' = [frame EXCEPT ![c] = Raise(f, "IndexError")]
            /\ UNCHANGED data_index
       ELSE /\ frame' = [frame EXCEPT ![c] =
                 LoopTest([f EXCEPT
                     !.buffer = DequeAppend(f.buffer, data[data_index + 1], f.span),
                     !.bufpos = DequeAppend(f.bufpos, data_index, f.span),
                     !.i = f.i + 1])]
            /\ data_index' = data_index + 1
    /\ UNCHANGED <<vocab, mutex, data, prev>>

(* A rewind by span - 1 positions. *)
Rewind_SpanMinusOne(cursor, n, sp) == PyMod(cursor + n - (sp - 1), n)

(* (data_index + len(data) - span) % len(data) *)
Rewind(cursor, n, sp) == PyMod(cursor + n - sp, n)

(* data_index = (data_index + len(data) - span) % len(data) *)
Backtrack(c) ==
    LET f == frame[c] IN
    /\ f.pc = "backtrack"
    /\ IF Len(data) = 0
       THEN /\ frame' = [frame EXCEPT ![c] = Raise(f, "ZeroDivisionError")]
            /\ UNCHANGED data_index
       ELSE /\ frame' = [frame EXCEPT ![c].pc = "return"]
            /\ data_index' = Rewind(data_index, Len(data), f.span)
    /\ UNCHANGED <<vocab, mutex, data, prev>>

(* return batch, labels *)
Return(c) ==
    /\ frame[c].pc = "return"
    /\ frame' = [frame EXCEPT ![c] = Leave(frame[c], data_index)]
    /\ UNCHANGED <<vocab, mutex, data, data_index, prev>>

(* return batch, labels, the returned call being kept in prev. *)
ReturnRecorded(c) ==
    /\ frame[c].pc = "return"
    /\ frame' = [frame EXCEPT ![c] = Leave(frame[c], data_index)]
    /\ prev' = frame'[c]
    /\ UNCHANGED <<vocab, mutex, data, data_index>>

(* ------------------------- the sequential program --------------------- *)
(* The training loop calls generate_batch again and again on an encoded
   corpus. *)
Init ==
    /\ vocabulary = <<>>
    /\ vocabulary_size = 1
    /\ count = <<>>
    /\ dictionary = EmptyDict
    /\ reverse_dictionary = EmptyDict
    /\ built = TRUE
    /\ data \in Corpora
    /\ data_index = 0
    /\ frame = [c \in Callers |-> NoFrame]
    /\ prev = NoFrame
    /\ mutex = TRUE

Next ==
    \/ Call(MainCaller)
    \/ CheckArgs(MainCaller)
    \/ Alloc(MainCaller)
    \/ ResetCursor(MainCaller)
    \/ FillBuffer(MainCaller)
    \/ Sample(MainCaller)
    \/ Emit(MainCaller)
    \/ Slide(MainCaller)
    \/ Backtrack(MainCaller)
    \/ Return(MainCaller)

Spec == Init /\ [][Next]_vars

(* The same program, every returned call being remembered until the next
   one returns. *)
NextDet ==
    \/ Call(MainCaller)
    \/ CheckArgs(MainCaller)
    \/ Alloc(MainCaller)
    \/ ResetCursor(MainCaller)
    \/ FillBuffer(MainCaller)
    \/ Sample(MainCaller)
    \/ Emit(MainCaller)
    \/ Slide(MainCaller)
    \/ Backtrack(MainCaller)
    \/ ReturnRecorded(MainCaller)

(* One corpus of every length is enough to compare two calls on the same
   corpus. *)
DetCorpora == {[k \in 1..n |-> k % 2] : n \in 0..MaxLen}

InitDet ==
    /\ vocabulary = <<>>
    /\ vocabulary_size = 1
    /\ count = <<>>
    /\ dictionary = EmptyDict
    /\ reverse_dictionary = EmptyDict
    /\ built = TRUE
    /\ data \in DetCorpora
    /\ data_index = 0
    /\ frame = [c \in Callers |-> NoFrame]
    /\ prev = NoFrame
    /\ mutex = TRUE

SpecDet == InitDet /\ [][NextDet]_vars

(* The arguments that make a valid sampler configuration. *)
ValidParams ==
    {p \in Params : p[1] > 0 /\ p[2] > 0 /\ AssertsHold(p[1], p[2], p[3])}

(* The training loop: generate_batch(batch_size, num_skips, skip_window) is
   called in every step with the same three configured values. *)
CallFixed(c) ==
    LET f == frame[c] IN
    /\ f.pc = "idle"
    /\ IF f.outcome = "none"
       THEN \E p \in ValidParams : frame' = [frame EXCEPT ![c] = Entered(p)]
       ELSE frame' = [frame EXCEPT ![c] =
                        Entered(<<f.batch_size, f.num_skips, f.skip_window>>)]
    /\ UNCHANGED <<vocab, mutex, data, data_index, prev>>

NextLoop ==
    \/ CallFixed(MainCaller)
    \/ CheckArgs(MainCaller)
    \/ Alloc(MainCaller)
    \/ ResetCursor(MainCaller)
    \/ FillBuffer(MainCaller)
    \/ Sample(MainCaller)
    \/ Emit(MainCaller)
    \/ Slide(MainCaller)
    \/ Backtrack(MainCaller)
    \/ Return(MainCaller)

(* The loop never stops calling, and a call that has begun runs to its
   end: the program is sequential and nothing in it blocks. *)
SpecLoop == InitDet /\ [][NextLoop]_vars /\ WF_vars(NextLoop)

(* A caller that changes its valid configuration from call to call. *)
CallValid(c) ==
    /\ frame[c].pc = "idle"
    /\ \E p \in ValidParams : frame' = [frame EXCEPT ![c] = Entered(p)]
    /\ UNCHANGED <<vocab, mutex, data, data_index, prev>>

NextValid ==
    \/ CallValid(MainCaller)
    \/ CheckArgs(MainCaller)
    \/ Alloc(MainCaller)
    \/ ResetCursor(MainCaller)
    \/ FillBuffer(MainCaller)
    \/ Sample(MainCaller)
    \/ Emit(MainCaller)
    \/ Slide(MainCaller)
    \/ Backtrack(MainCaller)
    \/ ReturnRecorded(MainCaller)

(* Calls with valid arguments one after the other, every returned call
   being remembered until the next one returns. *)
SpecValid == InitDet /\ [][NextValid]_vars

(* The configurations of the two callers: those of the notebook's own
   calls (skip_window = 1, num_skips = 2) and the smaller ones of one
   context per center. *)
SharedParams == {<<1, 1, 1>>, <<2, 1, 1>>, <<2, 2, 1>>}

(* Two callers share the cursor and each makes one call with valid
   arguments.  Either both keep to mutual exclusion around the whole call,
   or neither does and their statements interleave freely. *)
CallShared(c) ==
    /\ frame[c].pc = "idle"
    /\ frame[c].outcome = "none"
    /\ mutex => \A d \in Callers \ {c} : frame[d].pc = "idle"
    /\ \E p \in SharedParams : frame' = [frame EXCEPT ![c] = Entered(p)]
    /\ UNCHANGED <<vocab, mutex, data, data_index, prev>>

NextShared ==
    \E c \in Callers :
      \/ CallShared(c)
      \/ CheckArgs(c)
      \/ Alloc(c)
      \/ ResetCursor(c)
      \/ FillBuffer(c)
      \/ Sample(c)
      \/ Emit(c)
      \/ Slide(c)
      \/ Backtrack(c)
      \/ Return(c)

(* The longest window any call of the model asks for. *)
MaxSpan == 2 * MaxWindow + 1

(* The values the cursor can have between two calls of the sequential
   program: a window start the last call left it on, or the corpus length
   after the call that ran into the corpus end. *)
IdleCursors(n) ==
    IF n >= MaxSpan THEN (0..(n - MaxSpan)) \cup {n} ELSE {0}

InitShared ==
    /\ vocabulary = <<>>
    /\ vocabulary_size = 1
    /\ count = <<>>
    /\ dictionary = EmptyDict
    /\ reverse_dictionary = EmptyDict
    /\ built = TRUE
    /\ data \in DetCorpora
    /\ data_index \in IdleCursors(Len(data))
    /\ frame = [c \in Callers |-> NoFrame]
    /\ prev = NoFrame
    /\ mutex \in BOOLEAN

SpecShared == InitShared /\ [][NextShared]_vars

(* build_dataset applied to every token sequence and vocabulary size. *)
InitVocab ==
    /\ vocabulary \in TokenLists
    /\ vocabulary_size \in VocabSizes
    /\ count = <<>>
    /\ dictionary = EmptyDict
    /\ reverse_dictionary = EmptyDict
    /\ built = FALSE
    /\ data = <<>>
    /\ data_index = 0
    /\ frame = [c \in Callers |-> NoFrame]
    /\ prev = NoFrame
    /\ mutex = TRUE

NextVocab == BuildDataset

SpecVocab == InitVocab /\ [][NextVocab]_vars

(* ------------------------ notions of the claims ----------------------- *)
(* The caller has called generate_batch at least once. *)
Called(c) == frame[c].pc # "idle" \/ frame[c].outcome # "none"

(* The caller's last call is over. *)
Finished(c) == frame[c].pc = "idle" /\ frame[c].outcome # "none"

Returned(c) == frame[c].pc = "idle" /\ frame[c].outcome = "returned"

Raised(c) == frame[c].pc = "idle" /\ frame[c].outcome = "raised"

(* The arguments of the caller's call are a valid sampler configuration:
   positive batch_size and num_skips, and both preconditions. *)
ValidArgs(c) ==
    /\ frame[c].batch_size > 0
    /\ frame[c].num_skips > 0
    /\ PyMod(frame[c].batch_size, frame[c].num_skips) = 0
    /\ frame[c].num_skips <= 2 * frame[c].skip_window

(* span of the caller's call, from its arguments. *)
SpanOf(c) == 2 * frame[c].skip_window + 1

(* Every entry of batch and labels has been written by the call. *)
FullyWritten(c) ==
    /\ Len(frame[c].batch) = frame[c].batch_size
    /\ Len(frame[c].labels) = frame[c].batch_size
    /\ DOMAIN frame[c].taken = 1..frame[c].batch_size

(* ------------------------------- claims ------------------------------- *)
(* C1: with valid arguments and a corpus of at least span elements, a slide
   step that finds the cursor equal to the corpus length raises nothing,
   reloads the window with the first span corpus elements, sets the cursor
   to span and lets the call go on. *)
C1_Wraparound ==
    [][\A c \in Callers :
         (/\ frame[c].pc = "slide"
          /\ frame'[c].pc # "slide"
          /\ ValidArgs(c)
          /\ Len(data) >= SpanOf(c)
          /\ data_index = Len(data))
         => /\ frame'[c].outcome # "raised"
            /\ frame'[c].buffer = SubSeq(data, 1, frame[c].span)
            /\ data_index' = frame[c].span]_vars

(* C2: a call with valid arguments on a corpus of at least span elements
   returns, and batch and labels then have exactly batch_size entries, all
   of them written by the call. *)
C2_BatchLength ==
    \A c \in Callers :
      (Finished(c) /\ ValidArgs(c) /\ Len(data) >= SpanOf(c))
      => (Returned(c) /\ FullyWritten(c))

(* C3: within every group of num_skips consecutive output pairs the window
   positions the contexts were read from are pairwise distinct, none of
   them is the center position skip_window, and all lie inside the
   window. *)
C3_DistinctPositions ==
    \A c \in Callers :
      LET f == frame[c]
          group(k) == PyFloorDiv(k - 1, f.num_skips)
      IN  \A k \in DOMAIN f.taken :
            /\ f.taken[k] # f.skip_window
            /\ f.taken[k] \in 0..(SpanOf(c) - 1)
            /\ \A m \in DOMAIN f.taken :
                 (m # k /\ group(m) = group(k)) => f.taken[m] # f.taken[k]

(* A returned batch of two groups of two pairs each. *)
C3_Witness ==
    /\ Returned(MainCaller)
    /\ frame[MainCaller].batch_size = 4
    /\ frame[MainCaller].num_skips = 2
    /\ DOMAIN frame[MainCaller].taken = 1..4

(* The arguments violate one of the two preconditions. *)
ViolatesPrecondition(c) ==
    \/ frame[c].num_skips # 0 /\ PyMod(frame[c].batch_size, frame[c].num_skips) # 0
    \/ frame[c].num_skips > 2 * frame[c].skip_window

(* C4: a call whose arguments violate batch_size % num_skips == 0 or
   num_skips <= 2 * skip_window never gets past the asserts, ends with an
   error and not with a batch, and the cursor keeps the value it had
   before the call. *)
C4_PreconditionFailure ==
    \A c \in Callers :
      (Called(c) /\ ViolatesPrecondition(c))
      => /\ frame[c].pc \in {"assert", "idle"}
         /\ frame[c].pc = "idle" => frame[c].outcome = "raised"
         /\ data_index = frame[c].entry

(* generate_batch(7, 2, 1) has failed its assert after earlier calls moved
   the cursor. *)
C4_Witness ==
    /\ Raised(MainCaller)
    /\ frame[MainCaller].exc = "AssertionError"
    /\ frame[MainCaller].batch_size = 7
    /\ frame[MainCaller].num_skips = 2
    /\ frame[MainCaller].skip_window = 1
    /\ data_index > 0

(* C5: a call (valid arguments, corpus of at least span elements) that is
   over either returned a fully populated batch or failed with the cursor
   equal to its value before the call. *)
C5_AllOrNothing ==
    \A c \in Callers :
      (Finished(c) /\ ValidArgs(c) /\ Len(data) >= SpanOf(c))
      => \/ Returned(c) /\ FullyWritten(c)
         \/ Raised(c) /\ data_index = frame[c].entry

(* C6: on a corpus shorter than span a call with otherwise valid arguments
   never changes the cursor, and it ends with an error and not with a
   batch. *)
C6_ShortCorpusRejected ==
    \A c \in Callers :
      (Called(c) /\ ValidArgs(c) /\ Len(data) < SpanOf(c))
      => /\ frame[c].outcome # "returned"
         /\ data_index = frame[c].entry

(* C7: a call with batch_size <= 0, num_skips <= 0 or skip_window < 0 ends
   with an error and never returns a batch. *)
C7_ConfigValidated ==
    \A c \in Callers :
      (/\ Called(c)
       /\ \/ frame[c].batch_size <= 0
          \/ frame[c].num_skips <= 0
          \/ frame[c].skip_window < 0)
      => frame[c].pc # "return" /\ frame[c].outcome # "returned"

(* C8: on a corpus at least as long as every span, whenever no call is in
   progress the cursor satisfies 0 <= data_index < len(data). *)
C8_CursorRange ==
    ((\A c \in Callers : frame[c].pc = "idle") /\ Len(data) >= MaxSpan)
    => (0 <= data_index /\ data_index < Len(data))

(* Two calls are the same call: same cursor at entry, same arguments and
   same samples drawn (the corpus never changes). *)
SameCall(f, g) ==
    /\ f.entry = g.entry
    /\ f.batch_size = g.batch_size
    /\ f.num_skips = g.num_skips
    /\ f.skip_window = g.skip_window
    /\ f.picks = g.picks

(* C9: a call about to return after the same call has returned before
   returns the same batch and the same labels and leaves the cursor at the
   same value. *)
C9_Determinism ==
    \A c \in Callers :
      (/\ frame[c].pc = "return"
       /\ prev.outcome = "returned"
       /\ SameCall(prev, frame[c]))
      => /\ frame[c].batch = prev.batch
         /\ frame[c].labels = prev.labels
         /\ data_index = prev.exit

(* C10: dictionary and reverse_dictionary are inverse bijections between
   the vocabulary words and ranks within [0, V), and rank 0 maps back to
   the sentinel 'UNK'. *)
C10_RoundTrip ==
    built =>
      /\ \A w \in DOMAIN dictionary.value :
           /\ dictionary.value[w] \in 0..(vocabulary_size - 1)
           /\ dictionary.value[w] \in DOMAIN reverse_dictionary.value
           /\ reverse_dictionary.value[dictionary.value[w]] = w
      /\ \A v, w \in DOMAIN dictionary.value :
           v # w => dictionary.value[v] # dictionary.value[w]
      /\ 0 \in DOMAIN reverse_dictionary.value
      /\ reverse_dictionary.value[0] = "UNK"

(* The V-1 most frequent words of the token sequence, most frequent first,
   words of equal frequency in the order of their first occurrence. *)
Kept == LET top == most_common(Counter(vocabulary), vocabulary_size - 1)
        IN  [k \in DOMAIN top |-> top[k][1]]

(* C11: the frequency stored for rank 0, count[0][1], is the number of
   input tokens that are not among the V-1 most frequent words, and it is
   the number of 0 entries of the encoded corpus. *)
C11_UnkCount ==
    built =>
      /\ count[1][2] =
           Cardinality({k \in DOMAIN vocabulary : vocabulary[k] \notin Range(Kept)})
      /\ count[1][2] = Cardinality({k \in DOMAIN data : data[k] = 0})

(* Two tokens fell out of the vocabulary, one of them the string 'UNK'
   itself, and a third was kept. *)
C11_Witness ==
    /\ built
    /\ count[1][2] = 2
    /\ \E k \in DOMAIN vocabulary :
         vocabulary[k] = "UNK" /\ "UNK" \notin Range(Kept)
    /\ \E k \in DOMAIN data : data[k] # 0

(* C12: the encoded corpus has the length of the token sequence, entry i
   is the rank the dictionary gives token i when that word is among the
   V-1 most frequent words and 0 otherwise, and every entry lies in
   [0, V). *)
C12_Encoding ==
    built =>
      /\ Len(data) = Len(vocabulary)
      /\ \A k \in DOMAIN vocabulary :
           /\ data[k] \in 0..(vocabulary_size - 1)
           /\ vocabulary[k] \in Range(Kept)
                => (/\ vocabulary[k] \in DOMAIN dictionary.value
                    /\ data[k] = dictionary.value[vocabulary[k]])
           /\ vocabulary[k] \notin Range(Kept) => data[k] = 0

(* Three tokens were encoded, one kept with a rank above 0 and one dropped
   to 0. *)
C12_Witness ==
    /\ built
    /\ Len(data) = 3
    /\ \E k \in DOMAIN data : data[k] # 0 /\ vocabulary[k] \in Range(Kept)
    /\ \E k \in DOMAIN data : data[k] = 0 /\ vocabulary[k] \notin Range(Kept)

(* The number of occurrences of a word and the place of its first one. *)
Freq(w) == Occurrences(vocabulary, w)

FirstAt(w) == CHOOSE k \in DOMAIN vocabulary :
                /\ vocabulary[k] = w
                /\ \A m \in 1..(k - 1) : vocabulary[m] # w

(* C13: the kept words have the ranks 1..V-1 in descending frequency
   order: a more frequent kept word has the smaller rank, and of two kept
   words of equal frequency the one met first has the smaller rank. *)
C13_RankOrder ==
    built =>
      \A a, b \in Range(Kept) :
        /\ dictionary.value[a] \in 1..(vocabulary_size - 1)
        /\ Freq(a) > Freq(b) => dictionary.value[a] < dictionary.value[b]
        /\ (Freq(a) = Freq(b) /\ FirstAt(a) < FirstAt(b))
             => dictionary.value[a] < dictionary.value[b]

(* C14 as stated: the step that follows the last group sets the cursor to
   the value it had after the last slide step, moved back by span - 1
   positions modulo the corpus length. *)
C14_RewindBySpanMinusOne ==
    [][\A c \in Callers :
         (frame[c].pc = "backtrack" /\ frame'[c].pc = "return")
         => data_index' = PyMod(data_index - (frame[c].span - 1), Len(data))]_vars

(* C14, amended: the step that follows the last group sets the cursor to
   the value it had after the last slide step, moved back by span
   positions modulo the corpus length. *)
C14_RewindBySpan ==
    [][\A c \in Callers :
         (frame[c].pc = "backtrack" /\ frame'[c].pc = "return")
         => data_index' = PyMod(data_index - frame[c].span, Len(data))]_vars

(* A call of two groups has rewound the cursor and is about to return. *)
C14_Witness ==
    \E c \in Callers :
      /\ frame[c].pc = "return"
      /\ frame[c].i = 2
      /\ Len(frame[c].wins) = 2
      /\ data_index = frame[c].wins[2][1] + 1

(* The corpus position at which the first window of the caller's call
   starts: the cursor at call start, or 0 when cursor + span would run past
   the corpus end. *)
StartOf(c) ==
    IF frame[c].entry + SpanOf(c) > Len(data) THEN 0 ELSE frame[c].entry

(* The group a pair of the batch belongs to (groups count from 0). *)
GroupOf(c, k) == (k - 1) \div frame[c].num_skips

(* C17: in a call whose first window starts at corpus position s, every
   pair of group i has center corpus[s + i + skip_window], the middle
   element of the window, and context corpus[s + i + p] for the window
   position p chosen for it; with skip_window = 1 and num_skips = 2 the two
   contexts of a group are the left and the right neighbour of the
   center. *)
C17_PairValues ==
    \A c \in Callers :
      (ValidArgs(c) /\ Len(data) >= SpanOf(c)) =>
        /\ \A k \in DOMAIN frame[c].taken :
             LET at == StartOf(c) + GroupOf(c, k) IN
             /\ at + SpanOf(c) <= Len(data)
             /\ frame[c].batch[k] = data[at + frame[c].skip_window + 1]
             /\ frame[c].labels[k] = data[at + frame[c].taken[k] + 1]
        /\ (frame[c].skip_window = 1 /\ frame[c].num_skips = 2) =>
             \A k \in DOMAIN frame[c].taken :
               (k % 2 = 0) =>
                 LET at == StartOf(c) + GroupOf(c, k) IN
                 {frame[c].labels[k - 1], frame[c].labels[k]}
                   = {data[at + 1], data[at + 3]}

(* Two groups of two pairs have been written from windows that did not
   start at position 0; the two centers differ and the first group has
   different neighbours on its two sides. *)
C17_Witness ==
    \E c \in Callers :
      /\ DOMAIN frame[c].taken = 1..4
      /\ frame[c].batch_size = 4 /\ frame[c].num_skips = 2
      /\ frame[c].skip_window = 1
      /\ StartOf(c) > 0
      /\ frame[c].batch[1] # frame[c].batch[3]
      /\ frame[c].labels[1] # frame[c].labels[2]

(* The number of groups of the caller's call. *)
Groups(c) ==
    LET g == PyFloorDiv(frame[c].batch_size, frame[c].num_skips)
    IN  IF g > 0 THEN g ELSE 0

(* C19: a call that returns leaves the cursor one position further per
   group: with s the effective start and G the number of groups the cursor
   after the call is (s + G) mod N, and cursor + span <= N holds. *)
C19_NetAdvance ==
    \A c \in Callers :
      Returned(c) =>
        /\ frame[c].exit = PyMod(StartOf(c) + Groups(c), Len(data))
        /\ frame[c].exit + SpanOf(c) <= Len(data)

(* The window is a run of span successive corpus positions that lies
   inside the corpus, and buffer holds the corpus values at them. *)
Contiguous(c) ==
    LET f == frame[c] IN
    /\ Len(f.buffer) = SpanOf(c)
    /\ Len(f.bufpos) = SpanOf(c)
    /\ \E s \in 0..(Len(data) - SpanOf(c)) :
         \A k \in 1..SpanOf(c) :
           /\ f.bufpos[k] = s + k - 1
           /\ f.buffer[k] = data[s + k]

(* A group is being emitted from the caller's window. *)
Emitting(c) == frame[c].pc \in {"sample", "emit"}

(* C20: on a corpus of at least span elements, whenever a group is emitted
   the window holds exactly span elements and is the corpus slice
   corpus[s .. s+span-1] for some s with 0 <= s <= N - span. *)
C20_WindowContiguity ==
    \A c \in Callers :
      (Emitting(c) /\ Len(data) >= SpanOf(c)) => Contiguous(c)

(* The second group of a call that did not start at position 0 is being
   emitted. *)
C20_Witness ==
    \E c \in Callers :
      /\ frame[c].pc = "emit"
      /\ frame[c].i = 1
      /\ frame[c].entry > 0
      /\ frame[c].bufpos[1] = frame[c].entry + 1
      /\ Contiguous(c)

(* The call in progress directly continues the last returned call: same
   skip_window, it began where that call left the cursor, its first group
   has been emitted, and neither call went back to the start of the
   corpus in between. *)
Successive(f, g) ==
    /\ g.outcome = "returned"
    /\ Len(g.wins) >= 1
    /\ f.pc # "idle"
    /\ Len(f.wins) >= 1
    /\ f.skip_window = g.skip_window
    /\ f.entry = g.exit
    /\ f.entry + (2 * f.skip_window + 1) <= Len(data)

(* C15: of two successive calls with the same skip_window, neither
   wrapping, the first window of the second call is the last window
   emitted by the first call moved forward by exactly one corpus position,
   so that the first center of the second call is the position right after
   the last center of the first. *)
C15_NoSkipAtBoundary ==
    LET f == frame[MainCaller]
        last == prev.wins[Len(prev.wins)]
    IN  Successive(f, prev) =>
          /\ Len(f.wins[1]) = Len(last)
          /\ \A k \in DOMAIN last : f.wins[1][k] = last[k] + 1
          /\ f.wins[1][f.skip_window + 1] = last[f.skip_window + 1] + 1

(* A call with skip_window = 1 follows a returned call of two groups and
   has emitted its first group. *)
C15_Witness ==
    /\ Successive(frame[MainCaller], prev)
    /\ prev.skip_window = 1
    /\ Len(prev.wins) = 2
    /\ frame[MainCaller].wins[1] = <<2, 3, 4>>

(* All pairs of a group have been written and the center of that group
   was read from corpus position p. *)
CenterAt(c, p) ==
    /\ frame[c].pc = "slide"
    /\ Len(frame[c].bufpos) = SpanOf(c)
    /\ frame[c].bufpos[frame[c].skip_window + 1] = p

(* C16 as stated: under calls without end with fixed valid arguments on a
   corpus of at least span elements, every corpus position p in [0, N) is
   eventually the center position of an emitted group. *)
C16_EveryPositionCentered ==
    \A p \in 0..(MaxLen - 1) :
      <>(/\ Called(MainCaller)
         /\ \/ Len(data) < SpanOf(MainCaller)
            \/ p >= Len(data)
            \/ CenterAt(MainCaller, p))

(* C16, amended: under the same calls every corpus position p with
   skip_window <= p < N - skip_window is eventually the center position of
   an emitted group. *)
C16_InnerPositionsCentered ==
    \A p \in 0..(MaxLen - 1) :
      <>(/\ Called(MainCaller)
         /\ \/ Len(data) < SpanOf(MainCaller)
            \/ p < frame[MainCaller].skip_window
            \/ p >= Len(data) - frame[MainCaller].skip_window
            \/ CenterAt(MainCaller, p))

(* The last position that can be a center is one, in a call that did not
   begin at the start of the corpus. *)
C16_Witness ==
    /\ frame[MainCaller].entry > 0
    /\ StartOf(MainCaller) > 0
    /\ frame[MainCaller].skip_window = 1
    /\ CenterAt(MainCaller, Len(data) - 2)

(* The caller's call shows no trace of another call: every window it
   emits a group from is a run of successive corpus positions, and when it
   has returned it has moved the cursor from its start by one position per
   group. *)
AsIfAlone(c) ==
    Len(data) >= SpanOf(c) =>
      /\ Emitting(c) => Contiguous(c)
      /\ Returned(c) => frame[c].exit = StartOf(c) + Groups(c)

(* C18: two callers that run generate_batch on the shared cursor without
   mutual exclusion can reach a state that no sequential order of the two
   calls produces (the state of C18_Witness); when the whole call is run
   under mutual exclusion, every call is as a call run alone. *)
C18_SafeUnderMutex ==
    mutex => \A c \in Callers : AsIfAlone(c)

(* Without mutual exclusion: both callers are inside generate_batch and
   one of them emits a group from a window that is not a run of successive
   corpus positions. *)
C18_Witness ==
    /\ ~mutex
    /\ \E c \in Callers :
         /\ Emitting(c)
         /\ Len(data) >= SpanOf(c)
         /\ Len(frame[c].bufpos) = SpanOf(c)
         /\ ~Contiguous(c)
         /\ \E d \in Callers \ {c} : frame[d].pc # "idle"

====
